---- MODULE Spec2Model ----
(***************************************************************************)
(* Model of aiida_yambo_wannier90/calculations/kmesh.py:                   *)
(*   find_commensurate_integers  (lines 92-221)                            *)
(*   find_commensurate_meshes    (lines 224-265)                           *)
(*   kmapper                     (lines 44-89)                             *)
(* The three functions are pure; each gets a specification whose Init      *)
(* draws the arguments from bounded sets and whose actions follow the      *)
(* branches / loop iterations of the function body.                        *)
(***************************************************************************)
EXTENDS Integers, Sequences, FiniteSets, TLC

VARIABLES
    pc,                 \* position of the running function
    in_dense,           \* find_commensurate_integers: arguments of the outermost call
    in_coarse,
    dense,              \* arguments of the current (possibly recursive) call
    coarse,
    include_identical,
    depth,              \* number of recursive calls made so far
    valid_solutions,    \* candidate pool (kmesh.py:176)
    idx,                \* np.argmin(costs), 1-based here (kmesh.py:207)
    solution,           \* returned tuple (kmesh.py:163, 221)
    mesh_dense,         \* find_commensurate_meshes: dense (kmesh.py:247)
    mesh_coarse,        \* coarse (kmesh.py:248)
    new_dense,          \* kmesh.py:250
    new_coarse,         \* kmesh.py:251
    i,                  \* loop index of kmesh.py:253, 1-based here
    coarse_mesh,        \* kmapper: coarse_mesh.get_kpoints() (kmesh.py:73)
    dense_mesh,         \* dense_mesh.get_kpoints() (kmesh.py:74)
    start_band,
    end_band,
    k_list,             \* kmesh.py:77
    ci,                 \* position of the outer loop of kmesh.py:78, 1-based
    qpkrange            \* kmesh.py:87

solverVars == <<in_dense, in_coarse, dense, coarse, include_identical, depth,
                valid_solutions, idx, solution>>

meshesVars == <<mesh_dense, mesh_coarse, new_dense, new_coarse, i>>

mapperVars == <<coarse_mesh, dense_mesh, start_band, end_band, k_list, ci, qpkrange>>

vars == <<pc, solverVars, meshesVars, mapperVars>>

\* ---------------------------------------------------------------- bounds
MaxCount == 9           \* largest axis count drawn for dense / coarse
MaxInvalid == 2         \* axis counts down to -MaxInvalid are drawn too
MaxMesh == 4            \* largest mesh density per axis
MaxCoarsePoints == 2    \* longest coarse point list
MaxDensePoints == 3     \* longest dense point list

Counts == (0 - MaxInvalid)..MaxCount

\* ------------------------------------------- find_commensurate_integers
klow == 1               \* kmesh.py:169
scaling_dense == 1      \* kmesh.py:202 (1.0)
scaling_coarse == 1     \* kmesh.py:203 (1.0)

\* math.ceil(d / c) for c # 0 (true division, then ceiling)
CeilDiv(d, c) == IF c > 0 THEN 0 - ((0 - d) \div c) ELSE 0 - (d \div (0 - c))

\* khigh = math.ceil(dense / coarse) (kmesh.py:166, 170)
khigh(d, c) == CeilDiv(d, c)

\* Python range(a, b) as a sequence
range(a, b) == [n \in 1..(b - a) |-> a + n - 1]

\* upper limit of the inner loop (kmesh.py:189-192)
lim(nd, incl) ==
    IF incl THEN nd \div klow + 1 ELSE nd \div klow

\* inner loop over nc for one nd (kmesh.py:193-197)
InnerLoop(nd, c, incl) ==
    LET IsDivisor(nc) == nd % nc = 0
        hits == SelectSeq(range(c, lim(nd, incl)), IsDivisor)
    IN  [n \in 1..Len(hits) |-> <<nd, hits[n]>>]

\* outer loop over nd (kmesh.py:188)
RECURSIVE OuterLoop(_, _, _)
OuterLoop(nds, c, incl) ==
    IF nds = <<>> THEN <<>>
    ELSE InnerLoop(Head(nds), c, incl) \o OuterLoop(Tail(nds), c, incl)

\* the two "always good" solutions (kmesh.py:178-185)
BaselinesBelowDense(d, c, incl) ==
    << <<c * (khigh(d, c) - 1), c>> >> \o (IF incl THEN << <<d, d>> >> ELSE <<>>)

Baselines(d, c, incl) ==
    << <<c * khigh(d, c), c>> >> \o (IF incl THEN << <<d, d>> >> ELSE <<>>)

\* the whole candidate pool (kmesh.py:176-197), for d > c and c # 0
NoExhaustive(d, c, incl) == Baselines(d, c, incl)

ValidSolutions(d, c, incl) ==
    Baselines(d, c, incl) \o OuterLoop(range(d, c * khigh(d, c)), c, incl)

\* costs (kmesh.py:206)
costs(vs) == [n \in 1..Len(vs) |-> vs[n][1] ^ scaling_dense + vs[n][2] ^ scaling_coarse]

\* np.argmin: position of the first minimum (kmesh.py:207); 1-based
argminLast(cs) ==
    CHOOSE k \in 1..Len(cs) :
        /\ \A j \in 1..Len(cs) : cs[k] <= cs[j]
        /\ \A j \in (k + 1)..Len(cs) : cs[j] # cs[k]

argmin(cs) ==
    CHOOSE k \in 1..Len(cs) :
        /\ \A j \in 1..Len(cs) : cs[k] <= cs[j]
        /\ \A j \in 1..(k - 1) : cs[j] # cs[k]

\* dense <= coarse, include_identical (kmesh.py:147)
IdenticalKeepsDense(d, c) == <<d, c>>

IdenticalSolution(d, c) == <<c, c>>

\* arguments of the recursive call (kmesh.py:149-154)
RecurseFromDense(d, c) == <<d + 1, c>>

RecurseArgs(d, c) == <<c + 1, c>>

\* the whole function, as called by find_commensurate_meshes (d >= 1, c >= 1)
RECURSIVE find_commensurate_integers(_, _, _)
find_commensurate_integers(d, c, incl) ==
    IF d <= c
    THEN IF incl
         THEN IdenticalSolution(d, c)
         ELSE find_commensurate_integers(RecurseArgs(d, c)[1], RecurseArgs(d, c)[2], FALSE)
    ELSE LET vs == ValidSolutions(d, c, incl)
         IN  vs[argmin(costs(vs))]

\* values of the variables of a function that is not running
SolverIdle ==
    /\ in_dense = 0 /\ in_coarse = 0 /\ dense = 0 /\ coarse = 0
    /\ include_identical = TRUE /\ depth = 0
    /\ valid_solutions = <<>> /\ idx = 0 /\ solution = <<>>

MeshesIdle ==
    /\ mesh_dense = <<>> /\ mesh_coarse = <<>>
    /\ new_dense = <<>> /\ new_coarse = <<>> /\ i = 0

MapperIdle ==
    /\ coarse_mesh = <<>> /\ dense_mesh = <<>>
    /\ start_band = 0 /\ end_band = 0
    /\ k_list = <<>> /\ ci = 0 /\ qpkrange = <<>>

\* ------------------------------------------------------ Solver machine
SolverInit ==
    /\ pc = "call"
    /\ in_dense \in Counts
    /\ in_coarse \in Counts
    /\ dense = in_dense
    /\ coarse = in_coarse
    /\ include_identical \in BOOLEAN
    /\ depth = 0
    /\ valid_solutions = <<>>
    /\ idx = 0
    /\ solution = <<>>
    /\ MeshesIdle
    /\ MapperIdle

\* kmesh.py:145-147, 163
ReturnIdentical ==
    /\ pc = "call"
    /\ dense <= coarse
    /\ include_identical
    /\ solution' = IdenticalSolution(dense, coarse)
    /\ pc' = "done"
    /\ UNCHANGED <<in_dense, in_coarse, dense, coarse, include_identical, depth,
                   valid_solutions, idx>>
    /\ UNCHANGED <<meshesVars, mapperVars>>

\* kmesh.py:145, 148-154
Recurse ==
    /\ pc = "call"
    /\ dense <= coarse
    /\ ~include_identical
    /\ dense' = RecurseArgs(dense, coarse)[1]
    /\ coarse' = RecurseArgs(dense, coarse)[2]
    /\ include_identical' = FALSE
    /\ depth' = depth + 1
    /\ UNCHANGED <<pc, in_dense, in_coarse, valid_solutions, idx, solution>>
    /\ UNCHANGED <<meshesVars, mapperVars>>

\* kmesh.py:166 with coarse = 0: ZeroDivisionError
ZeroDivision ==
    /\ pc = "call"
    /\ dense > coarse
    /\ coarse = 0
    /\ pc' = "error"
    /\ UNCHANGED <<in_dense, in_coarse, dense, coarse, include_identical, depth,
                   valid_solutions, idx, solution>>
    /\ UNCHANGED <<meshesVars, mapperVars>>

\* kmesh.py:165-221
Search ==
    /\ pc = "call"
    /\ dense > coarse
    /\ coarse # 0
    /\ valid_solutions' = ValidSolutions(dense, coarse, include_identical)
    /\ idx' = argmin(costs(valid_solutions'))
    /\ solution' = valid_solutions'[idx']
    /\ pc' = "done"
    /\ UNCHANGED <<in_dense, in_coarse, dense, coarse, include_identical, depth>>
    /\ UNCHANGED <<meshesVars, mapperVars>>

SolverNext == ReturnIdentical \/ Recurse \/ ZeroDivision \/ Search

SpecSolver == SolverInit /\ [][SolverNext]_vars

FairSolver == SolverInit /\ [][SolverNext]_vars /\ WF_vars(SolverNext)

\* ------------------------------------------- find_commensurate_meshes
Meshes == [1..3 -> 1..MaxMesh]

\* arguments of the call for one axis (kmesh.py:254-257)
AxisArgsFirst(md, mc, a) == <<md[1], mc[1], TRUE>>

AxisArgs(md, mc, a) == <<md[a], mc[a], TRUE>>

MeshesInit ==
    /\ pc = "loop"
    /\ mesh_dense \in Meshes
    /\ mesh_coarse \in Meshes
    /\ new_dense = [a \in 1..3 |-> 0]
    /\ new_coarse = [a \in 1..3 |-> 0]
    /\ i = 1
    /\ SolverIdle
    /\ MapperIdle

\* one iteration of the loop of kmesh.py:253-257
AxisStep ==
    /\ pc = "loop"
    /\ i <= 3
    /\ LET args == AxisArgs(mesh_dense, mesh_coarse, i)
           r    == find_commensurate_integers(args[1], args[2], args[3])
       IN  /\ new_dense' = [new_dense EXCEPT ![i] = r[1]]
           /\ new_coarse' = [new_coarse EXCEPT ![i] = r[2]]
    /\ i' = i + 1
    /\ UNCHANGED <<pc, mesh_dense, mesh_coarse, solverVars, mapperVars>>

\* kmesh.py:259-265
ReturnMeshes ==
    /\ pc = "loop"
    /\ i > 3
    /\ pc' = "done"
    /\ UNCHANGED <<meshesVars, solverVars, mapperVars>>

MeshesNext == AxisStep \/ ReturnMeshes

SpecMeshes == MeshesInit /\ [][MeshesNext]_vars

\* ------------------------------------------------------------- kmapper
Decimals == 5                       \* kmesh.py:82

\* coordinates are integers counting units of 10^-(Decimals + 1)
Unit == 10 ^ (Decimals + 1)         \* the coordinate 1.0

Grain == Unit \div (10 ^ Decimals)  \* 10^-Decimals in coordinate units

\* np.around(x, decimals=5): nearest multiple of 10^-5, halves to even.
\* The sample points below never produce a difference exactly half way
\* between two multiples, where the binary floating-point value decides.
aroundTruncate(x) == IF x >= 0 THEN (x \div Grain) * Grain
                     ELSE 0 - (((0 - x) \div Grain) * Grain)

around(x) ==
    LET lo == (x \div Grain) * Grain
        r  == x - lo
    IN  IF 2 * r < Grain THEN lo
        ELSE IF 2 * r > Grain THEN lo + Grain
        ELSE IF (lo \div Grain) % 2 = 0 THEN lo ELSE lo + Grain

\* opt = np.array([0, 1, -1]) (kmesh.py:76)
optNoMinusOne == {0, Unit}

opt == {0, Unit, 0 - Unit}

\* kmesh.py:81-83
IsMatch(pi, pj) ==
    LET q == [a \in 1..3 |-> around(pi[a] - pj[a])]
    IN  q[1] \in opt /\ q[2] \in opt /\ q[3] \in opt

\* value of count when the n-th dense point is visited (kmesh.py:79, 85)
count(n) == n

\* the inner loop for one coarse point (kmesh.py:79-85)
ScanDenseFirstOnly(pi, dm) ==
    LET Hit(n) == IsMatch(pi, dm[n])
        hits   == SelectSeq([n \in 1..Len(dm) |-> n], Hit)
    IN  IF hits = <<>> THEN <<>> ELSE <<count(hits[1])>>

ScanDense(pi, dm) ==
    LET Hit(n) == IsMatch(pi, dm[n])
        hits   == SelectSeq([n \in 1..Len(dm) |-> n], Hit)
    IN  [n \in 1..Len(hits) |-> count(hits[n])]

\* kmesh.py:87
BuildRange(kl, sb, eb) == [n \in 1..Len(kl) |-> <<kl[n], kl[n], sb, eb>>]

\* sample points, in coordinate units
P0    == <<0, 0, 0>>
PX1   == <<Unit, 0, 0>>                         \* (1, 0, 0)
PHalf == <<Unit \div 2, 0, 0>>                  \* (0.5, 0, 0)
PX2   == <<2 * Unit, 0, 0>>                     \* (2, 0, 0)
PNear == <<0, Unit + 4, 4 - Unit>>              \* (0, 1.000004, -0.999996)
PMiss == <<0, 0, Unit - Grain>>                 \* (0, 0, 0.99999)

PointPool == {P0, PX1, PHalf, PX2, PNear, PMiss}

BandPairs == {<<1, 4>>, <<2, 3>>}

SeqsUpTo(S, n) == UNION {[1..m -> S] : m \in 0..n}

MapperInit ==
    /\ pc = "scan"
    /\ coarse_mesh \in SeqsUpTo(PointPool, MaxCoarsePoints)
    /\ dense_mesh \in SeqsUpTo(PointPool, MaxDensePoints)
    /\ \E b \in BandPairs : start_band = b[1] /\ end_band = b[2]
    /\ k_list = <<>>
    /\ ci = 1
    /\ qpkrange = <<>>
    /\ SolverIdle
    /\ MeshesIdle

\* one iteration of the outer loop (kmesh.py:78-85)
ScanCoarse ==
    /\ pc = "scan"
    /\ ci <= Len(coarse_mesh)
    /\ k_list' = k_list \o ScanDense(coarse_mesh[ci], dense_mesh)
    /\ ci' = ci + 1
    /\ UNCHANGED <<pc, coarse_mesh, dense_mesh, start_band, end_band, qpkrange>>
    /\ UNCHANGED <<solverVars, meshesVars>>

\* kmesh.py:87-89
ReturnRange ==
    /\ pc = "scan"
    /\ ci > Len(coarse_mesh)
    /\ qpkrange' = BuildRange(k_list, start_band, end_band)
    /\ pc' = "done"
    /\ UNCHANGED <<coarse_mesh, dense_mesh, start_band, end_band, k_list, ci>>
    /\ UNCHANGED <<solverVars, meshesVars>>

MapperNext == ScanCoarse \/ ReturnRange

SpecMapper == MapperInit /\ [][MapperNext]_vars

\* ------------------------------------------------------- Solver claims
ValidInput == in_dense >= 1 /\ in_coarse >= 1

Returned == pc = "done"

Cost(p) == p[1] + p[2]

\* pairs the claim ranges over: reachable by only increasing the inputs
Feasible(d, c) ==
    /\ d >= in_dense
    /\ c >= in_coarse
    /\ d % c = 0
    /\ (include_identical \/ d > c)

\* C1: for dense >= 1, coarse >= 1 and both values of include_identical the
\* returned pair is feasible and no feasible pair (d >= dense, c >= coarse,
\* c divides d, and d > c when include_identical is false) has a strictly
\* smaller sum; find_commensurate_integers(5, 2) returns (6, 2).
C1_Minimal ==
    (Returned /\ ValidInput) =>
        /\ Feasible(solution[1], solution[2])
        /\ \A d \in in_dense..Cost(solution) : \A c \in in_coarse..Cost(solution) :
               Feasible(d, c) => d + c >= Cost(solution)
        /\ (in_dense = 5 /\ in_coarse = 2 /\ include_identical) => solution = <<6, 2>>

\* an exhaustive candidate strictly beats both baselines: (9, 4) -> (10, 5)
C1_Witness ==
    /\ Returned
    /\ in_dense = 9 /\ in_coarse = 4
    /\ solution = <<10, 5>>
    /\ idx > 2

\* C2: for dense >= 1 and coarse >= 1 the returned pair satisfies
\* newDense mod newCoarse = 0 and newCoarse <= newDense, also when the input
\* coarse is larger than the input dense.
C2_Commensurate ==
    (Returned /\ ValidInput) =>
        /\ solution[1] % solution[2] = 0
        /\ solution[2] <= solution[1]

C2_Witness ==
    /\ Returned
    /\ ValidInput
    /\ in_coarse > in_dense
    /\ include_identical

\* C3: the inputs are only ever increased: newDense >= dense and
\* newCoarse >= coarse for dense >= 1, coarse >= 1.
C3_OnlyIncreases ==
    (Returned /\ ValidInput) =>
        /\ solution[1] >= in_dense
        /\ solution[2] >= in_coarse

C3_Witness ==
    /\ Returned
    /\ ValidInput
    /\ in_dense = 5 /\ in_coarse = 2
    /\ solution[1] > in_dense

\* C8: a call with dense < 1 or coarse < 1 ends in an error outcome and
\* never returns a pair of integers.
C8_InvalidRejected ==
    (in_dense < 1 \/ in_coarse < 1) => pc # "done"

\* C9: with include_identical = false the call terminates for every
\* dense >= 1, coarse >= 1 and returns newDense > newCoarse; when
\* dense <= coarse exactly one recursive call is made, it enters the
\* dense > coarse branch, and no further recursion happens.
C9_StrictGrowth ==
    /\ [](( ValidInput /\ ~include_identical) =>
            /\ depth <= 1
            /\ (depth = 1 => (in_dense <= in_coarse /\ dense > coarse))
            /\ (Returned => /\ solution[1] > solution[2]
                            /\ (in_dense <= in_coarse => depth = 1)
                            /\ (in_dense > in_coarse => depth = 0)))
    /\ ((ValidInput /\ ~include_identical) ~> Returned)

C9_Witness ==
    /\ Returned
    /\ ValidInput
    /\ ~include_identical
    /\ in_dense < in_coarse
    /\ depth = 1

\* number of baseline candidates at the head of the pool
NumBaselines == IF include_identical THEN 2 ELSE 1

\* C10: the pool is ordered baseline (coarse * ceil(dense / coarse), coarse),
\* then (dense, dense) if include_identical, then the exhaustive candidates
\* by increasing newDense and, within one newDense, increasing newCoarse;
\* among candidates of minimum cost the one added first is returned, so the
\* first baseline wins every tie.
C10_FirstMinimumWins ==
    (Returned /\ ValidInput /\ idx > 0) =>
        LET vs == valid_solutions
            n  == Len(vs)
        IN  /\ n >= NumBaselines
            /\ vs[1][2] = coarse
            /\ vs[1][1] % coarse = 0
            /\ vs[1][1] >= dense
            /\ vs[1][1] - coarse < dense
            /\ (include_identical => vs[2] = <<dense, dense>>)
            /\ \A a \in (NumBaselines + 1)..n :
                   /\ vs[a][1] \in dense..(vs[1][1] - 1)
                   /\ vs[a][2] >= coarse
                   /\ vs[a][1] % vs[a][2] = 0
            /\ \A a \in (NumBaselines + 1)..n : \A b \in (a + 1)..n :
                   \/ vs[a][1] < vs[b][1]
                   \/ (vs[a][1] = vs[b][1] /\ vs[a][2] < vs[b][2])
            /\ solution = vs[idx]
            /\ \A j \in 1..n : Cost(vs[j]) >= Cost(solution)
            /\ \A j \in 1..(idx - 1) : Cost(vs[j]) > Cost(solution)
            /\ (Cost(vs[1]) = Cost(solution) => idx = 1)

\* (7, 3): baseline (9, 3) ties with the exhaustive candidate (8, 4)
C10_Witness ==
    /\ Returned
    /\ ValidInput
    /\ idx = 1
    /\ \E j \in (NumBaselines + 1)..Len(valid_solutions) :
           /\ Cost(valid_solutions[j]) = Cost(solution)
           /\ valid_solutions[j] # solution

\* ------------------------------------------------------- Meshes claims
\* C7: every axis is computed independently with include_identical = true:
\* (new_dense[a], new_coarse[a]) = find_commensurate_integers(dense[a],
\* coarse[a]); on an axis with dense[a] <= coarse[a] both outputs equal
\* coarse[a]; the returned dense mesh is >= the returned coarse mesh on
\* every axis; ((2,2,2), (4,4,4)) yields (4,4,4) and (4,4,4).
C7_AxisWise ==
    (pc = "done") =>
        /\ \A a \in 1..3 :
              /\ <<new_dense[a], new_coarse[a]>> =
                     find_commensurate_integers(mesh_dense[a], mesh_coarse[a], TRUE)
              /\ (mesh_dense[a] <= mesh_coarse[a] =>
                     (new_dense[a] = mesh_coarse[a] /\ new_coarse[a] = mesh_coarse[a]))
              /\ new_dense[a] >= new_coarse[a]
              /\ \A b \in 1..3 :
                     (mesh_dense[a] = mesh_dense[b] /\ mesh_coarse[a] = mesh_coarse[b]) =>
                         (new_dense[a] = new_dense[b] /\ new_coarse[a] = new_coarse[b])
        /\ (mesh_dense = <<2, 2, 2>> /\ mesh_coarse = <<4, 4, 4>>) =>
               (new_dense = <<4, 4, 4>> /\ new_coarse = <<4, 4, 4>>)

\* axes of both kinds in one call: dense < coarse, dense > coarse
C7_Witness ==
    /\ pc = "done"
    /\ mesh_dense = <<2, 3, 4>>
    /\ mesh_coarse = <<4, 2, 4>>
    /\ new_dense = <<4, 4, 4>>
    /\ new_coarse = <<4, 2, 4>>

\* ------------------------------------------------------- Mapper claims
Abs(x) == IF x >= 0 THEN x ELSE 0 - x

\* the difference p - q is within half of 10^-5 of 0, 1 or -1 on every axis
UnitApart(p, q) ==
    \A a \in 1..3 : \E t \in {0 - 1, 0, 1} :
        2 * Abs((p[a] - q[a]) - t * Unit) < Grain

\* p and q differ by an integer on every axis
IntegerApart(p, q) == \A a \in 1..3 : (p[a] - q[a]) % Unit = 0

\* C4: coarse [(0,0,0)] and dense [(0,0,0), (1,0,0), (0.5,0,0)] give exactly
\* one match, at dense position 1: the result is [(1, 1, start_band, end_band)].
C4_SingleMatch ==
    (pc = "done" /\ coarse_mesh = <<P0>> /\ dense_mesh = <<P0, PX1, PHalf>>) =>
        qpkrange = << <<1, 1, start_band, end_band>> >>

\* C4 as amended: the same inputs give two matches, at dense positions 1 and
\* 2 ((0,0,0) - (1,0,0) = (-1,0,0) is in opt); only (0.5,0,0) does not match.
C4_TwoMatches ==
    (pc = "done" /\ coarse_mesh = <<P0>> /\ dense_mesh = <<P0, PX1, PHalf>>) =>
        qpkrange = << <<1, 1, start_band, end_band>>, <<2, 2, start_band, end_band>> >>

C4_Witness ==
    /\ pc = "done"
    /\ coarse_mesh = <<P0>>
    /\ dense_mesh = <<P0, PX1, PHalf>>
    /\ Len(qpkrange) = 2

\* C5: the result lists, in coarse-then-dense order, one entry
\* (pos, pos, start_band, end_band) per pair (coarse point, dense point at
\* 1-based position pos) whose rounded difference is 0, 1 or -1 on every
\* axis: all matches are emitted, a coarse point without a match adds
\* nothing, the length is the number of matching pairs, the bands are
\* passed through.
C5_ScanOrder ==
    (pc = "done") =>
        LET M == {p \in (1..Len(coarse_mesh)) \X (1..Len(dense_mesh)) :
                      UnitApart(coarse_mesh[p[1]], dense_mesh[p[2]])}
            Before(p, q) == p[1] < q[1] \/ (p[1] = q[1] /\ p[2] < q[2])
            Rank(p) == 1 + Cardinality({q \in M : Before(q, p)})
        IN  /\ Len(qpkrange) = Cardinality(M)
            /\ \A p \in M : qpkrange[Rank(p)] = <<p[2], p[2], start_band, end_band>>
            /\ (coarse_mesh = <<P0>> /\ dense_mesh = <<P0, PX1>>) =>
                   qpkrange = << <<1, 1, start_band, end_band>>,
                                 <<2, 2, start_band, end_band>> >>

\* first coarse point without a match, second one with two matches
C5_Witness ==
    /\ pc = "done"
    /\ coarse_mesh = <<PHalf, P0>>
    /\ dense_mesh = <<P0, PMiss, PX1>>
    /\ qpkrange = << <<1, 1, start_band, end_band>>, <<3, 3, start_band, end_band>> >>

\* positions appended to k_list by the step just taken
Appended == {k_list'[n] : n \in (Len(k_list) + 1)..Len(k_list')}

\* C6: whenever a coarse point and a dense point differ by an integer (any
\* integer) on every axis, the dense point's position is in the result for
\* that coarse point.
C6_AllTranslations ==
    [][(pc = "scan" /\ ci <= Len(coarse_mesh)) =>
          \A b \in 1..Len(dense_mesh) :
              IntegerApart(coarse_mesh[ci], dense_mesh[b]) => b \in Appended]_vars

\* C6 as amended: the positions found for a coarse point are exactly those
\* of the dense points whose rounded difference from it is 0, 1 or -1 on
\* every axis; a difference of any other integer (such as 2) is not found.
C6_UnitTranslations ==
    [][(pc = "scan" /\ ci <= Len(coarse_mesh)) =>
          \A b \in 1..Len(dense_mesh) :
              UnitApart(coarse_mesh[ci], dense_mesh[b]) <=> b \in Appended]_vars

\* (0,0,0) scanned against [(2,0,0), (0,1.000004,-0.999996)]: only the second
C6_Witness ==
    /\ pc = "scan"
    /\ ci = 2
    /\ coarse_mesh[1] = P0
    /\ dense_mesh = <<PX2, PNear>>
    /\ k_list = <<2>>

====
